---- MODULE Spec2Model ----
(***************************************************************************)
(* A model of the secrets-engine SDK: the storage directory (directory,   *)
(* .keyfile, meta.json, store.db with its write-ahead log), the crypto    *)
(* primitives, the SQLite row store, the integrity sealer and the         *)
(* SecretsEngine lifecycle (open / get / set / has / delete / keys /      *)
(* close / destroy).  Async methods are split at the points where they    *)
(* await file I/O, so that calls issued without awaiting interleave.      *)
(***************************************************************************)
EXTENDS Integers, Sequences, FiniteSets, Bags, TLC

\* ------------------------------------------------------------------ bounds

\* Number of values the random generator may hand out in one behaviour
\* (keyfile, salt, and one IV per encrypt call).
MaxRand == 6

\* Number of engine calls that may be awaiting I/O at the same time.
MaxPending == 2

\* Secret names and values, as sequences of characters.
Names == {<<"a">>, <<"a", ".", "b">>}
Values == {<<>>, <<"v">>}

\* Longest glob pattern and longest key the matcher is tried on, and the
\* characters they are made of: a plain one, the segment separator, the
\* metacharacter, and two that mean something in a regular expression.
MaxGlobLen == 3
PatternChars == {"a", ".", "*", "?", "+"}
KeyChars == {"a", ".", "?", "+"}

\* Patterns keys() is asked with: the empty one, a lone star, a literal name,
\* and a star after and before a separator.
KeyPatterns == {<<>>, <<"*">>, <<"a">>, <<"a", ".", "*">>, <<"*", ".", "b">>}

\* ------------------------------------------------------- program constants

ModeDirectory == 448    \* 0o700
ModeKeyfile == 256      \* 0o400
ModeDatabase == 384     \* 0o600
ModeMeta == 384         \* 0o600

\* Mode of a file SQLite creates: its default 0o644 less the bits of the
\* process umask, here the usual 0o022.  No code of the engine reads or sets
\* the mode of store.db, so another umask changes nothing but this number.
DatabaseCreateMode == 420

\* Modes somebody may give the directory or a file in it from outside: more
\* and less permissive than expected for the directory (0o755, 0o500), more
\* permissive for the keyfile (0o600) and meta.json (0o644).
ChmodModes == [dir |-> {493, 320}, keyfile |-> {384}, meta |-> {420}]

STORE_VERSION == "1"

\* AES-256-GCM auth tag length in bytes.
AUTH_TAG_LENGTH == 16

\* removeDirectoryContents: attempts, and milliseconds per attempt waited.
maxRetries == 5
retryDelay == 200

\* Errors unlink and rm may fail with: two the loop retries on, one it does not.
RemoveErrors == {"EBUSY", "EPERM", "EACCES"}

\* The one storage directory of the model (options.path).
resolveStoragePath == "T"

\* ------------------------------------------------------------------- state

VARIABLES
  dir,        \* <<>> when the directory does not exist, else <<[mode]>>
  keyfile,    \* <<>> or <<[mode, data]>>
  meta,       \* <<>> or <<[mode, text]>>, text the content of meta.json
  db,         \* <<>> or <<[main, wal, mode]>>: store.db and its WAL sibling
  machineId,  \* hostname:mac:user of the machine
  rng,        \* number of random values drawn so far
  inst,       \* TRUE when a SecretsEngine instance exists in the process
  closed,     \* SecretsEngine.closed
  masterKey,  \* SecretsEngine.masterKey
  salt,       \* SecretsEngine.salt
  dirPath,    \* SecretsEngine.dirPath
  keyIndex,   \* SecretsEngine.keyIndex: set of [h, name]
  handle,     \* the SecretStore's database handle: "none", "open", "closed", "leaked"
  calls,      \* engine calls suspended at an await: a bag of [op, pc, seal]
  ret,        \* outcome of the call that settled in the last step, if one did
  hist,       \* history: what happened to the directory since the last open
  globPattern, \* the pattern matchGlob is called with
  globKey,     \* the key matchGlob is called with
  globResult   \* what the call gave, Null before it

disk == <<dir, keyfile, meta, db>>
engine == <<inst, closed, masterKey, salt, dirPath, keyIndex, handle>>
vars == <<dir, keyfile, meta, db, machineId, rng, inst, closed, masterKey, salt,
          dirPath, keyIndex, handle, calls, ret, hist,
          globPattern, globKey, globResult>>
glob == <<globPattern, globKey, globResult>>

None == <<>>
Some(x) == <<x>>

\* Results of calls: a value, null, or an error code.
Ok(v) == [tag |-> "ok", v |-> v]
Null == [tag |-> "null", v |-> <<>>]
Err(code) == [tag |-> code, v |-> <<>>]

\* ------------------------------------------------------------------ crypto

\* scrypt over machineId || keyfile with the salt: a different input gives a
\* different key.
deriveMasterKey(mid, kf, s) == [mid |-> mid, kf |-> kf, salt |-> s]

NoKey == [mid |-> "", kf |-> 0, salt |-> 0]

\* HMAC-SHA256(masterKey, data), hex.
hmac(key, data) == [k |-> key, d |-> data]

\* SHA-256 of a byte buffer.
sha256(bytes) == [sha |-> bytes]

\* AES-256-GCM: the ciphertext with its auth tag binds key, IV and plaintext;
\* its length is the plaintext's plus the 16-byte tag.
encrypt(key, plaintext, iv) ==
  [iv |-> iv,
   ciphertext |-> [k |-> key, iv |-> iv, p |-> plaintext, intact |-> TRUE,
                   len |-> Len(plaintext) + AUTH_TAG_LENGTH]]

\* The error decrypt throws: it carries the key hash it was given.
DecryptionError(keyHash) == [tag |-> "DecryptionError", v |-> <<keyHash>>]

\* A decrypt that hands back the plaintext without checking the auth tag.
decryptUnauthenticated(key, iv, ciphertext, keyHash) == Ok(ciphertext.p)

\* decrypt: a ciphertext shorter than the auth tag is refused; anything the
\* cipher rejects (wrong key, wrong IV, altered bytes) is a DecryptionError.
decrypt(key, iv, ciphertext, keyHash) ==
  IF ciphertext.len < AUTH_TAG_LENGTH THEN DecryptionError(keyHash)
  ELSE IF ciphertext.intact /\ ciphertext.k = key /\ ciphertext.iv = iv
    THEN Ok(ciphertext.p)
    ELSE DecryptionError(keyHash)

\* --------------------------------------------------------------- row store

\* Bytes of a database file: whether the schema exists, the rows, the number
\* of page writes that produced them (a deleted row leaves its page changed),
\* and whether somebody overwrote bytes of the file from outside.
EmptyContent == [schema |-> FALSE, rows |-> {}, gen |-> 0, dirt |-> "clean"]

\* One committed write in the WAL.
FrameDdl == [op |-> "ddl", h |-> <<>>, row |-> <<>>]
FramePut(entry) == [op |-> "put", h |-> <<entry.key_hash>>, row |-> <<entry>>]
FrameDel(keyHash) == [op |-> "del", h |-> <<keyHash>>, row |-> <<>>]

applyFrame(c, f) ==
  IF f.op = "ddl"
    THEN [c EXCEPT !.schema = TRUE, !.gen = @ + 1]
    ELSE [c EXCEPT !.rows = {r \in @ : r.key_hash # f.h[1]}
                             \cup {f.row[i] : i \in DOMAIN f.row},
                   !.gen = @ + 1]

RECURSIVE applyAll(_, _)
applyAll(c, w) == IF w = <<>> THEN c ELSE applyAll(applyFrame(c, Head(w)), Tail(w))

\* What a connection reads: the main file with the WAL on top.
View(d) == applyAll(d.main, d.wal)

\* A checkpoint that moves nothing.
checkpointNothing(d) == d

\* PRAGMA wal_checkpoint(TRUNCATE): all committed data lands in the main
\* file and the WAL is emptied.
checkpoint(d) == [d EXCEPT !.main = View(d), !.wal = <<>>]

\* A committed write goes to the WAL.  (SQLite checkpoints by itself only
\* once the WAL holds 1000 pages, which the few writes of a behaviour here
\* never reach.)
walCommit(d, frame) == [d EXCEPT !.wal = Append(@, frame)]

\* Opening an existing database throws its WAL away.
SecretStoreOpenDropWal(d) ==
  IF d = None
    THEN [err |-> "",
          db |-> Some([main |-> EmptyContent, wal |-> <<FrameDdl>>,
                       mode |-> DatabaseCreateMode]),
          handle |-> "open"]
  ELSE IF d[1].main.dirt = "structure"
    THEN [err |-> "InitializationError", db |-> d, handle |-> "leaked"]
  ELSE [err |-> "", db |-> Some([d[1] EXCEPT !.wal = <<>>]), handle |-> "open"]

\* SecretStore.open: new Database(create), journal_mode = WAL, CREATE TABLE
\* IF NOT EXISTS.  A file that is no longer a database makes the first
\* statement throw, which is rethrown as InitializationError; the Database
\* object made before it is not closed.
SecretStoreOpen(d) ==
  IF d = None
    THEN [err |-> "",
          db |-> Some([main |-> EmptyContent, wal |-> <<FrameDdl>>,
                       mode |-> DatabaseCreateMode]),
          handle |-> "open"]
  ELSE IF View(d[1]).dirt = "structure"
    THEN [err |-> "InitializationError", db |-> d, handle |-> "leaked"]
  ELSE IF ~View(d[1]).schema
    THEN [err |-> "", db |-> Some([d[1] EXCEPT !.wal = Append(@, FrameDdl)]),
          handle |-> "open"]
  ELSE [err |-> "", db |-> d, handle |-> "open"]

\* An upsert followed by a WAL checkpoint.
upsertCheckpointing(d, entry) == checkpoint(walCommit(d, FramePut(entry)))

\* INSERT OR IGNORE in place of the upsert.
upsertIgnore(d, entry) ==
  IF {r \in View(d).rows : r.key_hash = entry.key_hash} = {} THEN walCommit(d, FramePut(entry)) ELSE d

\* INSERT ... ON CONFLICT(key_hash) DO UPDATE.
upsert(d, entry) == walCommit(d, FramePut(entry))

findByHash(d, keyHash) == {r \in View(d).rows : r.key_hash = keyHash}

findAll(d) == View(d).rows

\* The error the SELECT of findAll throws when the pages of the table can
\* no longer be read, or "".
findAllError(d) == IF View(d).dirt = "pages" THEN "SQLiteError" ELSE ""

\* A delete that reports success whether or not a row was removed.
deleteByHashAlways(d, keyHash) ==
  [db |-> walCommit(d, FrameDel(keyHash)), deleted |-> TRUE]

\* DELETE FROM secrets WHERE key_hash = ?; true iff a row was removed.
deleteByHash(d, keyHash) ==
  IF findByHash(d, keyHash) = {}
    THEN [db |-> d, deleted |-> FALSE]
    ELSE [db |-> walCommit(d, FrameDel(keyHash)), deleted |-> TRUE]

\* db.close().  SQLite checkpoints when the last connection closes; with
\* statements not yet finalized the close is deferred, so the checkpoint may
\* or may not have run (ck).
storeClose(d, ck) == IF ck /\ d # None THEN Some(checkpoint(d[1])) ELSE d

\* ------------------------------------------------------- filesystem guard

\* join(dirPath, name); name "" for the directory itself.
join(d, name) == [dir |-> d, name |-> name]

\* A check that lets through every mode with no more than the expected one.
verifyPermissionLax(filePath, actualMode, expectedMode) ==
  IF actualMode > expectedMode
    THEN [err |-> "SecurityError",
          info |-> <<[expected |-> expectedMode, actual |-> actualMode,
                      path |-> filePath]>>]
    ELSE [err |-> "", info |-> <<>>]

\* stat, mode & 0o777, SecurityError(expected, actual, path) unless equal.
verifyPermission(filePath, actualMode, expectedMode) ==
  IF actualMode # expectedMode
    THEN [err |-> "SecurityError",
          info |-> <<[expected |-> expectedMode, actual |-> actualMode,
                      path |-> filePath]>>]
    ELSE [err |-> "", info |-> <<>>]

\* mkdir(recursive, 0o700), then verifyPermission on the directory.
ensureDirectory(d) ==
  LET d1 == IF d = None THEN Some([mode |-> ModeDirectory]) ELSE d
      vp == verifyPermission(join(resolveStoragePath, ""), d1[1].mode, ModeDirectory)
  IN [err |-> vp.err, info |-> vp.info, dir |-> d1]

\* writeFile(mode 0o400) + chmod of 32 random bytes.
createKeyfile(r) == Some([mode |-> ModeKeyfile, data |-> r])

\* Existing keyfile: verify its mode, read it.  Missing: create it.
ensureKeyfile(kf, r) ==
  IF kf = None
    THEN [err |-> "", info |-> <<>>, keyfile |-> createKeyfile(r), drawn |-> 1]
    ELSE LET vp == verifyPermission(join(resolveStoragePath, ".keyfile"),
                                    kf[1].mode, ModeKeyfile)
         IN [err |-> vp.err, info |-> vp.info, keyfile |-> kf, drawn |-> 0]

\* JSON.stringify of a StoreMeta / JSON.parse of the file's text.
stringify(version, s, integrity) ==
  [json |-> TRUE, version |-> version, salt |-> s, integrity |-> integrity]

parse(text) == IF text.json THEN Ok(text) ELSE Err("SyntaxError")

readMetaFile(m) == IF m = None THEN None ELSE Some(m[1].text)

\* writeFile(mode 0o600) + chmod.
writeMetaFile(content) == Some([mode |-> ModeMeta, text |-> content])

getMachineIdentity == machineId

\* -------------------------------------------------------------------- glob

\* Characters String.prototype.replace prefixes with a backslash.
RegexSpecials == {".", "+", "^", "$", "{", "}", "(", ")", "|", "[", "]", "\\"}

RECURSIVE escapeSpecials(_)
escapeSpecials(p) ==
  IF p = <<>> THEN <<>>
  ELSE (IF Head(p) \in RegexSpecials THEN <<"\\", Head(p)>> ELSE <<Head(p)>>)
         \o escapeSpecials(Tail(p))

\* A star that stands for any run of characters, dots included.
starClassAny == <<".", "*">>

\* What every * of the pattern is replaced with.
starClass == <<"[", "^", ".", "]", "*">>

\* The second replace works on the escaped text; a backslash in front of a
\* star does not protect it (the escape set has no star).
RECURSIVE replaceStars(_)
replaceStars(p) ==
  IF p = <<>> THEN <<>>
  ELSE (IF Head(p) = "*" THEN starClass ELSE <<Head(p)>>) \o replaceStars(Tail(p))

\* One term of a compiled regular expression.
Atom(kind, ch) == [kind |-> kind, ch |-> ch, opt |-> FALSE, many |-> FALSE]

\* new RegExp(text), for the texts the two replaces can produce.  q tells
\* what a quantifier would apply to: "atom", "quantified" (a further ? only
\* makes it lazy) or "none" (nothing to repeat: SyntaxError).
RECURSIVE RegExp(_, _, _)
RegExp(r, atoms, q) ==
  LET fail == [err |-> "SyntaxError", atoms |-> <<>>]
      n == Len(atoms)
  IN IF r = <<>> THEN [err |-> "", atoms |-> atoms]
     ELSE CASE Head(r) = "\\" ->
                 IF Len(r) < 2 THEN fail
                 ELSE RegExp(SubSeq(r, 3, Len(r)), Append(atoms, Atom("lit", r[2])), "atom")
            [] Head(r) = "[" ->
                 IF Len(r) >= 4 /\ SubSeq(r, 1, 4) = <<"[", "^", ".", "]">>
                   THEN RegExp(SubSeq(r, 5, Len(r)), Append(atoms, Atom("notdot", "")), "atom")
                   ELSE fail
            [] Head(r) = "." -> RegExp(Tail(r), Append(atoms, Atom("any", "")), "atom")
            [] Head(r) = "^" -> RegExp(Tail(r), Append(atoms, Atom("bol", "")), "none")
            [] Head(r) = "$" -> RegExp(Tail(r), Append(atoms, Atom("eol", "")), "none")
            [] Head(r) = "*" ->
                 IF q = "atom"
                   THEN RegExp(Tail(r), [atoms EXCEPT ![n].opt = TRUE, ![n].many = TRUE],
                               "quantified")
                   ELSE fail
            [] Head(r) = "?" ->
                 IF q = "atom"
                   THEN RegExp(Tail(r), [atoms EXCEPT ![n].opt = TRUE], "quantified")
                 ELSE IF q = "quantified" THEN RegExp(Tail(r), atoms, "none")
                 ELSE fail
            [] OTHER -> RegExp(Tail(r), Append(atoms, Atom("lit", Head(r))), "atom")

accepts(a, c) ==
  CASE a.kind = "lit" -> c = a.ch
    [] a.kind = "notdot" -> c # "."
    [] OTHER -> TRUE

\* The atoms match a prefix of k; atStart: k begins where the input begins.
RECURSIVE regexMatch(_, _, _)
regexMatch(atoms, k, atStart) ==
  IF atoms = <<>> THEN TRUE
  ELSE LET a == Head(atoms)
       IN CASE a.kind = "bol" -> atStart /\ regexMatch(Tail(atoms), k, atStart)
            [] a.kind = "eol" -> k = <<>> /\ regexMatch(Tail(atoms), k, atStart)
            [] OTHER ->
                 \/ a.opt /\ regexMatch(Tail(atoms), k, atStart)
                 \/ /\ k # <<>>
                    /\ accepts(a, Head(k))
                    /\ regexMatch(IF a.many THEN atoms ELSE Tail(atoms), Tail(k), FALSE)

\* regex.test(s): a match starting anywhere in s.
regexTest(atoms, s) ==
  \E i \in 0..Len(s) : regexMatch(atoms, SubSeq(s, i + 1, Len(s)), i = 0)

matchGlob(pat, k) ==
  LET regexStr == replaceStars(escapeSpecials(pat))
      regex == RegExp(<<"^">> \o regexStr \o <<"$">>, <<>>, "none")
  IN IF regex.err # "" THEN Err(regex.err) ELSE Ok(regexTest(regex.atoms, k))

\* keys.filter(key => matchGlob(pattern, key)): the first call that throws
\* ends it.
filterKeys(ks, pat) ==
  IF \E k \in ks : matchGlob(pat, k).tag # "ok"
    THEN Err("SyntaxError")
    ELSE Ok({k \in ks : matchGlob(pat, k).v})

\* ------------------------------------------------------- integrity sealer

\* A seal over what a connection reads, WAL included.
sealLogical(key, d) == hmac(key, sha256(View(d)))

\* HMAC-SHA256(master_key, SHA256(bytes of store.db)): readFile reads the
\* main file only.
seal(key, d) == hmac(key, sha256(d.main))

\* computeIntegrityHmac without a suspension in between (as open runs it).
computeIntegrityHmac(key, d, withCheckpoint) ==
  LET d1 == IF withCheckpoint THEN checkpoint(d) ELSE d
  IN [db |-> d1, hmac |-> seal(key, d1)]

\* A verification that hashes the main file as it lies, without checkpoint.
verifyIntegrityNoCheckpoint(key, d, m) ==
  LET metaRaw == readMetaFile(m)
  IN IF metaRaw = None \/ parse(metaRaw[1]).tag # "ok"
          \/ metaRaw[1].version # STORE_VERSION
       THEN [err |-> "IntegrityError", db |-> d]
       ELSE [err |-> IF seal(key, d) # metaRaw[1].integrity
                       THEN "IntegrityError" ELSE "",
             db |-> d]

\* A verification that checkpoints the WAL before it looks at meta.json.
verifyIntegrityCheckpointFirst(key, d, m) ==
  LET metaRaw == readMetaFile(m)
      c == computeIntegrityHmac(key, d, TRUE)
  IN IF metaRaw = None \/ parse(metaRaw[1]).tag # "ok"
          \/ metaRaw[1].version # STORE_VERSION
       THEN [err |-> "IntegrityError", db |-> c.db]
       ELSE [err |-> IF c.hmac # metaRaw[1].integrity THEN "IntegrityError" ELSE "",
             db |-> c.db]

\* verifyIntegrity: meta.json read and parsed, its version compared, and
\* only then the WAL checkpointed and the file hashed.
verifyIntegrity(key, d, m) ==
  LET metaRaw == readMetaFile(m)
  IN IF metaRaw = None THEN [err |-> "IntegrityError", db |-> d]
     ELSE IF parse(metaRaw[1]).tag # "ok" THEN [err |-> "IntegrityError", db |-> d]
     ELSE IF metaRaw[1].version # STORE_VERSION THEN [err |-> "IntegrityError", db |-> d]
     ELSE LET c == computeIntegrityHmac(key, d, TRUE)
          IN [err |-> IF c.hmac # metaRaw[1].integrity THEN "IntegrityError" ELSE "",
              db |-> c.db]

\* A seal update that never checkpoints, whatever it is asked.
updateIntegrityNoCheckpoint(key, d, s, withCheckpoint) ==
  [db |-> d, meta |-> writeMetaFile(stringify(STORE_VERSION, s, seal(key, d)))]

\* updateIntegrity without a suspension in between (as open runs it).
updateIntegrity(key, d, s, withCheckpoint) ==
  LET c == computeIntegrityHmac(key, d, withCheckpoint)
  IN [db |-> c.db, meta |-> writeMetaFile(stringify(STORE_VERSION, s, c.hmac))]

\* ------------------------------------------------------------------ engine

\* A hash that differs from one call to the next (salted with fresh
\* randomness, as the ciphertexts are).
hashKeyPerCall(key) == hmac(masterKey, <<key, rng>>)

\* A hash of the name's first segment only.
hashKeyPrefix(key) == hmac(masterKey, <<Head(key)>>)

hashKey(key) == hmac(masterKey, key)

\* A guard that lets every call through.
ensureOpenAlways == ""

\* The guard against operations on a closed instance: the error it throws,
\* or "" when it lets the call through.
ensureOpen == IF closed THEN "closed" ELSE ""

\* The row lookup and decryption of get, after its closed guard.
lookup(key) ==
  IF db = None THEN Err("SQLiteError")
  ELSE LET entry == findByHash(db[1], hashKey(key))
       IN IF entry = {} THEN Null
          ELSE LET e == CHOOSE r \in entry : TRUE
               IN decrypt(masterKey, e.iv, e.cipher, hashKey(key))

get(key) == IF ensureOpen # "" THEN Err(ensureOpen) ELSE lookup(key)

\* getOrThrow testing the value for falsiness instead of for null.
getOrThrowFalsy(key) ==
  LET value == get(key)
  IN IF value.tag = "null" \/ value = Ok(<<>>) THEN Err("KeyNotFoundError") ELSE value

getOrThrow(key) ==
  LET value == get(key)
  IN IF value.tag = "null" THEN Err("KeyNotFoundError") ELSE value

has(key) ==
  IF ensureOpen # "" THEN Err(ensureOpen)
  ELSE Ok(\E e \in keyIndex : e.h = hashKey(key))

\* UTF-16 code units of the characters of the Basic Multilingual Plane the
\* model uses ("UFF5E" stands for the one character U+FF5E).
codeUnit(c) ==
  CASE c = "*" -> 42 [] c = "." -> 46 [] c = "a" -> 97 [] c = "b" -> 98
    [] c = "v" -> 118 [] c = "UFF5E" -> 65374 [] OTHER -> 0

\* The code units a JavaScript string holds for one character: a surrogate
\* pair for a character beyond U+FFFF ("U1F600" stands for U+1F600).
utf16(c) == IF c = "U1F600" THEN <<55357, 56832>> ELSE <<codeUnit(c)>>

\* The code point of a character.
codePoint(c) == IF c = "U1F600" THEN 128512 ELSE codeUnit(c)

\* u comes before w, unit by unit.
RECURSIVE unitsBefore(_, _)
unitsBefore(u, w) ==
  IF u = <<>> THEN w # <<>>
  ELSE IF w = <<>> THEN FALSE
  ELSE IF Head(u) = Head(w) THEN unitsBefore(Tail(u), Tail(w))
  ELSE Head(u) < Head(w)

\* s sorts before t under Array.prototype.sort's default comparison, which
\* compares strings by their UTF-16 code units.
RECURSIVE before(_, _)
before(s, t) ==
  IF s = <<>> THEN t # <<>>
  ELSE IF t = <<>> THEN FALSE
  ELSE IF Head(s) = Head(t) THEN before(Tail(s), Tail(t))
  ELSE unitsBefore(utf16(Head(s)), utf16(Head(t)))

RECURSIVE sort(_)
sort(S) ==
  IF S = {} THEN <<>>
  ELSE LET m == CHOOSE x \in S : \A y \in S \ {x} : before(x, y)
       IN <<m>> \o sort(S \ {m})

allKeys == {e.name : e \in keyIndex}

\* keys(pattern?): pat is None when no argument is given.  An empty pattern
\* is falsy and takes the same branch.
keysOf(pat) ==
  IF ensureOpen # "" THEN Err(ensureOpen)
  ELSE IF pat = None \/ pat[1] = <<>> THEN Ok(sort(allKeys))
  ELSE LET f == filterKeys(allKeys, pat[1])
       IN IF f.tag # "ok" THEN f ELSE Ok(sort(f.v))

\* keys() without a pattern.
keys == keysOf(None)

size == IF ensureOpen # "" THEN Err(ensureOpen) ELSE Ok(Cardinality(keyIndex))

storagePath == dirPath

\* The key index built from the value IV instead of the key's own IV.
buildKeyIndexValueIv(key, d) ==
  {[h |-> r.key_hash, name |-> decrypt(key, r.iv, r.key_enc.ciphertext, r.key_hash).v] :
     r \in {x \in View(d).rows :
              decrypt(key, x.iv, x.key_enc.ciphertext, x.key_hash).tag = "ok"}}

\* An index that takes every row, whether or not its key_enc decrypts.
buildKeyIndexUnauthenticated(key, d) ==
  {[h |-> r.key_hash, name |-> r.key_enc.ciphertext.p] : r \in View(d).rows}

\* Decrypt every row's key_enc (12-byte IV, then ciphertext); a row that
\* fails to decrypt is skipped.  (An error of findAll itself is not caught:
\* see findAllError in open.)
buildKeyIndex(key, d) ==
  {[h |-> r.key_hash, name |-> decrypt(key, r.key_enc.iv, r.key_enc.ciphertext, r.key_hash).v] :
     r \in {x \in findAll(d) :
              decrypt(key, x.key_enc.iv, x.key_enc.ciphertext, x.key_hash).tag = "ok"}}

\* A salt drawn anew at every open.
resolveSaltFresh(m, r) == [salt |-> r, isNewStore |-> TRUE, drawn |-> 1]

\* meta.json parseable with a salt: existing store.  Otherwise a new salt.
resolveSalt(m, r) ==
  LET metaRaw == readMetaFile(m)
  IN IF metaRaw # None /\ parse(metaRaw[1]).tag = "ok" /\ metaRaw[1].salt # 0
       THEN [salt |-> metaRaw[1].salt, isNewStore |-> FALSE, drawn |-> 0]
       ELSE [salt |-> r, isNewStore |-> TRUE, drawn |-> 1]

NoInstance(val, d, kf, m, dbf, r, h) ==
  [val |-> val, dir |-> d, keyfile |-> kf, meta |-> m, db |-> dbf, rng |-> r,
   inst |-> FALSE, masterKey |-> NoKey, salt |-> 0, dirPath |-> "",
   keyIndex |-> {}, handle |-> h, info |-> <<>>]

\* SecretsEngine.open, start to finish.  ck: see storeClose.
open(ck) ==
  LET path == resolveStoragePath
      ed == ensureDirectory(dir)
      h0 == IF handle = "leaked" THEN "leaked" ELSE "none"
  IN IF ed.err # ""
       THEN [NoInstance(ed.err, ed.dir, keyfile, meta, db, rng, h0)
               EXCEPT !.info = ed.info]
     ELSE
     LET ek == ensureKeyfile(keyfile, rng + 1)
     IN IF ek.err # ""
          THEN [NoInstance(ek.err, ed.dir, ek.keyfile, meta, db, rng, h0)
                  EXCEPT !.info = ek.info]
        ELSE
        LET rs == resolveSalt(meta, rng + ek.drawn + 1)
            r1 == rng + ek.drawn + rs.drawn
            key == deriveMasterKey(getMachineIdentity, ek.keyfile[1].data, rs.salt)
            so == SecretStoreOpen(db)
        IN IF so.err # ""
             THEN NoInstance(so.err, ed.dir, ek.keyfile, meta, so.db, r1, so.handle)
           ELSE
           LET vi == IF rs.isNewStore THEN [err |-> "", db |-> so.db[1]]
                     ELSE verifyIntegrity(key, so.db[1], meta)
           IN IF vi.err # ""
                THEN NoInstance(vi.err, ed.dir, ek.keyfile, meta,
                                storeClose(Some(vi.db), ck), r1, "closed")
              ELSE IF findAllError(vi.db) # ""
                THEN NoInstance(findAllError(vi.db), ed.dir, ek.keyfile, meta,
                                storeClose(Some(vi.db), ck), r1, "closed")
              ELSE
              LET index == buildKeyIndex(key, vi.db)
                  ui == IF rs.isNewStore
                          THEN updateIntegrity(key, vi.db, rs.salt, TRUE)
                          ELSE [db |-> vi.db, meta |-> meta]
              IN [val |-> "ok", dir |-> ed.dir, keyfile |-> ek.keyfile,
                  meta |-> ui.meta, db |-> Some(ui.db), rng |-> r1,
                  inst |-> TRUE, masterKey |-> key, salt |-> rs.salt,
                  dirPath |-> path, keyIndex |-> index, handle |-> "open",
                  info |-> <<>>]

\* ----------------------------------------------------------------- history

HistBlank ==
  [sit |-> "none", tamper |-> FALSE, ckpt |-> FALSE, chmod |-> "none",
   mutated |-> FALSE, meta |-> "none",
   keys |-> <<>>, vals |-> [n \in Names |-> Null], justOpened |-> FALSE]

\* The history an action other than Open starts from.
Hist == IF hist.justOpened THEN HistBlank ELSE hist

Snapshot(h, sit) ==
  [h EXCEPT !.sit = sit, !.tamper = FALSE, !.ckpt = FALSE, !.chmod = "none",
            !.meta = "none",
            !.keys = sort(allKeys), !.vals = [n \in Names |-> lookup(n)]]

\* info: what a SecurityError carries.
Ret(op, val, closedBefore) ==
  [op |-> op, val |-> val, closedBefore |-> closedBefore, info |-> <<>>]

\* No call settled in the last step.
NoRet == Ret("", "", FALSE)

\* attempt, delay, error: the loop counter of removeDirectoryContents, the
\* milliseconds it waited last and the error it caught last.
Call(op) ==
  [op |-> op, pc |-> "read", seal |-> <<>>, attempt |-> 0, delay |-> 0,
   error |-> ""]

Pending == BagToSet(calls)
Add(c) == calls (+) SetToBag({c})
Remove(c) == calls (-) SetToBag({c})

\* -------------------------------------------------------------------- init

Init ==
  /\ dir = None /\ keyfile = None /\ meta = None /\ db = None
  /\ machineId = "host:mac:user"
  /\ rng = 0
  /\ inst = FALSE /\ closed = FALSE /\ masterKey = NoKey /\ salt = 0
  /\ dirPath = "" /\ keyIndex = {} /\ handle = "none"
  /\ calls = EmptyBag
  /\ ret = NoRet
  /\ hist = HistBlank
  /\ globPattern = <<>> /\ globKey = <<>> /\ globResult = Null

\* ----------------------------------------------------------------- actions

\* SecretsEngine.open on the directory, by a process that holds no open
\* instance and awaits nothing.
Open ==
  /\ calls = EmptyBag
  /\ ~inst \/ closed
  /\ \E ck \in BOOLEAN :
       LET o == open(ck)
       IN /\ o.rng <= MaxRand
          /\ dir' = o.dir /\ keyfile' = o.keyfile /\ meta' = o.meta /\ db' = o.db
          /\ rng' = o.rng
          /\ inst' = o.inst /\ closed' = FALSE /\ masterKey' = o.masterKey
          /\ salt' = o.salt /\ dirPath' = o.dirPath /\ keyIndex' = o.keyIndex
          /\ handle' = o.handle
          /\ ret' = [Ret("open", o.val, FALSE) EXCEPT !.info = o.info]
  /\ hist' = [hist EXCEPT !.justOpened = TRUE]
  /\ UNCHANGED <<machineId, calls>>
  /\ UNCHANGED glob

\* set(key, value) that suspends before it has written anything.
SetBeginDeferred(key, value) ==
  /\ inst
  /\ IF ensureOpen # ""
       THEN /\ ret' = Ret("set", ensureOpen, closed)
            /\ UNCHANGED <<disk, machineId, rng, engine, calls, hist>>
       ELSE /\ BagCardinality(calls) < MaxPending
            /\ rng + 2 <= MaxRand
            /\ rng' = rng + 2
            /\ calls' = Add(Call("set"))
            /\ hist' = [Hist EXCEPT !.sit = "none"]
            /\ ret' = NoRet
            /\ UNCHANGED <<disk, machineId, engine>>
  /\ UNCHANGED glob

\* set(key, value) up to its first await: closed guard, encrypt, upsert,
\* index update, and updateIntegrity as far as the readFile it awaits.
SetBegin(key, value) ==
  /\ inst
  /\ IF ensureOpen # ""
       THEN /\ ret' = Ret("set", ensureOpen, closed)
            /\ UNCHANGED <<disk, machineId, rng, engine, calls, hist>>
       ELSE /\ BagCardinality(calls) < MaxPending
            /\ rng + 2 <= MaxRand
            /\ LET keyHash == hashKey(key)
                     encryptedKey == encrypt(masterKey, key, rng + 1)
                     encryptedValue == encrypt(masterKey, value, rng + 2)
                     keyEncPacked == [iv |-> encryptedKey.iv,
                                      ciphertext |-> encryptedKey.ciphertext]
                 IN /\ db' = Some(upsert(db[1],
                                         [key_hash |-> keyHash, key_enc |-> keyEncPacked,
                                          iv |-> encryptedValue.iv,
                                          cipher |-> encryptedValue.ciphertext]))
                    /\ keyIndex' = {e \in keyIndex : e.h # keyHash}
                                     \cup {[h |-> keyHash, name |-> key]}
            /\ rng' = rng + 2
            /\ calls' = Add(Call("set"))
            /\ hist' = [Hist EXCEPT !.sit = "none"]
            /\ ret' = NoRet
            /\ UNCHANGED <<dir, keyfile, meta, machineId, inst, closed, masterKey,
                           salt, dirPath, handle>>
  /\ UNCHANGED glob

\* delete(key) up to its first await, or to its return when no row matched.
DeleteBegin(key) ==
  /\ inst
  /\ IF ensureOpen # ""
       THEN /\ ret' = Ret("delete", ensureOpen, closed)
            /\ UNCHANGED <<disk, machineId, rng, engine, calls, hist>>
       ELSE /\ BagCardinality(calls) < MaxPending
            /\ LET keyHash == hashKey(key)
                     del == deleteByHash(db[1], keyHash)
                 IN IF del.deleted
                      THEN /\ db' = Some(del.db)
                           /\ keyIndex' = {e \in keyIndex : e.h # keyHash}
                           /\ calls' = Add(Call("delete"))
                           /\ hist' = [Hist EXCEPT !.sit = "none"]
                           /\ ret' = NoRet
                      ELSE /\ ret' = Ret("delete", "false", FALSE)
                           /\ hist' = [Hist EXCEPT !.sit = "none"]
                           /\ UNCHANGED <<db, keyIndex, calls>>
            /\ UNCHANGED <<dir, keyfile, meta, machineId, rng, inst, closed,
                           masterKey, salt, dirPath, handle>>
  /\ UNCHANGED glob

\* The readFile of computeIntegrityHmac completes for call c: the seal is
\* computed from the bytes the main file has now.
CallRead(c) ==
  /\ c.pc = "read"
  /\ IF db = None
       THEN /\ calls' = Remove(c)
            /\ ret' = Ret(c.op, "ENOENT", FALSE)
       ELSE /\ calls' = Remove(c) (+) SetToBag({[c EXCEPT !.pc = "write",
                                          !.seal = Some(seal(masterKey, db[1]))]})
            /\ ret' = NoRet
  /\ hist' = Hist
  /\ UNCHANGED <<disk, machineId, rng, engine>>
  /\ UNCHANGED glob

\* The writeMetaFile of updateIntegrity completes for call c.  set and
\* delete return after it; close goes on to its last part.
CallWrite(c) ==
  /\ c.pc = "write"
  /\ IF dir = None
       THEN /\ calls' = Remove(c)
            /\ ret' = Ret(c.op, "ENOENT", FALSE)
            /\ hist' = Hist
            /\ UNCHANGED meta
       ELSE /\ meta' = writeMetaFile(stringify(STORE_VERSION, salt, c.seal[1]))
            /\ IF c.op = "close"
                 THEN /\ calls' = Remove(c) (+) SetToBag({[c EXCEPT !.pc = "finish"]})
                      /\ hist' = Hist
                      /\ ret' = NoRet
                 ELSE /\ calls' = Remove(c)
                      /\ ret' = Ret(c.op,
                                    IF c.op = "delete" THEN "true" ELSE "ok", FALSE)
                      /\ hist' = [Hist EXCEPT !.mutated = TRUE]
  /\ UNCHANGED <<dir, keyfile, db, machineId, rng, engine>>
  /\ UNCHANGED glob

\* close() that seals the main file without checkpointing first.
CloseBeginSealFirst ==
  /\ inst
  /\ IF closed
       THEN /\ ret' = Ret("close", "ok", TRUE)
            /\ UNCHANGED <<disk, machineId, rng, engine, calls, hist>>
       ELSE /\ BagCardinality(calls) < MaxPending
            /\ calls' = Add(Call("close"))
            /\ hist' = Snapshot(Hist, IF calls = EmptyBag THEN "closing" ELSE "none")
            /\ ret' = NoRet
            /\ UNCHANGED <<disk, machineId, rng, engine>>
  /\ UNCHANGED glob

\* close() without its closed test.
CloseBeginUnguarded ==
  /\ inst
  /\ db # None
  /\ BagCardinality(calls) < MaxPending
  /\ db' = Some(checkpoint(db[1]))
  /\ calls' = Add(Call("close"))
  /\ hist' = Snapshot(Hist, IF calls = EmptyBag THEN "closing" ELSE "none")
  /\ ret' = NoRet
  /\ UNCHANGED <<dir, keyfile, meta, machineId, rng, engine>>
  /\ UNCHANGED glob

\* close() up to its first await: nothing when already closed; otherwise the
\* checkpoint, and updateIntegrity as far as its readFile.
CloseBegin ==
  /\ inst
  /\ IF closed
       THEN /\ ret' = Ret("close", "ok", TRUE)
            /\ UNCHANGED <<disk, machineId, rng, engine, calls, hist>>
       ELSE /\ BagCardinality(calls) < MaxPending
            /\ db' = Some(checkpoint(db[1]))
            /\ calls' = Add(Call("close"))
            /\ hist' = Snapshot(Hist, IF calls = EmptyBag THEN "closing" ELSE "none")
            /\ ret' = NoRet
            /\ UNCHANGED <<dir, keyfile, meta, machineId, rng, engine>>
  /\ UNCHANGED glob

\* close() after updateIntegrity: store.close(), keyIndex.clear(), closed.
CloseFinish(c) ==
  /\ c.pc = "finish"
  /\ \E ck \in BOOLEAN :
       db' = IF handle = "open" THEN storeClose(db, ck) ELSE db
  /\ handle' = "closed"
  /\ keyIndex' = {}
  /\ closed' = TRUE
  /\ calls' = Remove(c)
  /\ ret' = Ret("close", "ok", FALSE)
  /\ hist' = [Hist EXCEPT !.sit = IF @ = "closing" THEN "closed" ELSE "none"]
  /\ UNCHANGED <<dir, keyfile, meta, machineId, rng, inst, masterKey, salt, dirPath>>
  /\ UNCHANGED glob

\* destroy() that does not mark the instance closed.
DestroyBeginStaysOpen ==
  /\ inst
  /\ ~closed
  /\ BagCardinality(calls) < MaxPending
  /\ \E ck \in BOOLEAN : db' = storeClose(Some(checkpoint(db[1])), ck)
  /\ handle' = "closed"
  /\ keyIndex' = {}
  /\ calls' = Add([Call("destroy") EXCEPT !.pc = "remove"])
  /\ hist' = [Hist EXCEPT !.sit = "none"]
  /\ ret' = NoRet
  /\ UNCHANGED <<dir, keyfile, meta, machineId, rng, inst, closed, masterKey,
                 salt, dirPath>>
  /\ UNCHANGED glob

\* A destroy() that, on a closed instance, goes straight to the removal again.
DestroyBeginRetriesRemoval ==
  /\ inst
  /\ BagCardinality(calls) < MaxPending
  /\ IF closed
       THEN UNCHANGED <<db, handle, keyIndex, closed>>
       ELSE /\ \E ck \in BOOLEAN : db' = storeClose(Some(checkpoint(db[1])), ck)
            /\ handle' = "closed"
            /\ keyIndex' = {}
            /\ closed' = TRUE
  /\ calls' = Add([Call("destroy") EXCEPT !.pc = "remove"])
  /\ hist' = [Hist EXCEPT !.sit = "none"]
  /\ ret' = NoRet
  /\ UNCHANGED <<dir, keyfile, meta, machineId, rng, inst, masterKey,
                 salt, dirPath>>
  /\ UNCHANGED glob

\* destroy() up to its first await: closed guard, checkpoint, store.close(),
\* keyIndex.clear(), closed; then the 150 ms pause.
DestroyBegin ==
  /\ inst
  /\ IF ensureOpen # ""
       THEN /\ ret' = Ret("destroy", ensureOpen, closed)
            /\ UNCHANGED <<disk, machineId, rng, engine, calls, hist>>
       ELSE /\ BagCardinality(calls) < MaxPending
            /\ \E ck \in BOOLEAN : db' = storeClose(Some(checkpoint(db[1])), ck)
            /\ handle' = "closed"
            /\ keyIndex' = {}
            /\ closed' = TRUE
            /\ calls' = Add([Call("destroy") EXCEPT !.pc = "remove"])
            /\ hist' = [Hist EXCEPT !.sit = "none"]
            /\ ret' = NoRet
            /\ UNCHANGED <<dir, keyfile, meta, machineId, rng, inst, masterKey,
                           salt, dirPath>>
  /\ UNCHANGED glob

\* removeDirectoryContents: every entry of the directory, then the directory.
\* With nothing left on disk and no call pending, no random value drawn so
\* far is in use any more, so the draw count starts again.
DestroyRemove(c) ==
  /\ c.pc = "remove"
  /\ dir' = None /\ keyfile' = None /\ meta' = None /\ db' = None
  /\ calls' = Remove(c)
  /\ ret' = Ret("destroy", "ok", FALSE)
  /\ hist' = HistBlank
  /\ rng' = IF BagCardinality(calls) = 1 THEN 0 ELSE rng
  /\ UNCHANGED <<machineId, engine>>
  /\ UNCHANGED glob

\* A catch that retries whatever the error.
isRetryableAlways(code) == TRUE

\* The catch of removeDirectoryContents: retry on EBUSY and EPERM only.
isRetryable(code) == code \in {"EBUSY", "EPERM"}

\* The files readdir finds in the directory.
Entries ==
  (IF keyfile = None THEN {} ELSE {"keyfile"})
    \cup (IF meta = None THEN {} ELSE {"meta"})
    \cup (IF db = None THEN {} ELSE {"db"})

\* One attempt of removeDirectoryContents: readdir, unlink of every entry,
\* rm of the directory.  It succeeds, or unlink fails on entry f after the
\* entries in S were removed (readdir's order is the file system's), or rm
\* of the directory fails after every entry was removed.  A retryable error
\* before the last attempt leads to the wait and the next attempt; any other
\* leaves the loop as the error destroy() throws.
RemoveAttempt(c) ==
  /\ c.pc = "remove"
  /\ c.attempt < maxRetries
  /\ \/ /\ dir # None
        /\ dir' = None /\ keyfile' = None /\ meta' = None /\ db' = None
        /\ calls' = Remove(c)
        /\ ret' = [Ret("destroy", "ok", FALSE) EXCEPT !.info = <<c.attempt>>]
        /\ hist' = HistBlank
        /\ rng' = IF BagCardinality(calls) = 1 THEN 0 ELSE rng
     \/ /\ dir = None
        /\ calls' = Remove(c)
        /\ ret' = [Ret("destroy", "ENOENT", FALSE) EXCEPT !.info = <<c.attempt>>]
        /\ hist' = [Hist EXCEPT !.sit = "none"]
        /\ UNCHANGED <<disk, rng>>
     \/ /\ dir # None
        /\ \E code \in RemoveErrors, f \in Entries \cup {"dir"} :
           \E S \in SUBSET (Entries \ {f}) :
             /\ f = "dir" => S = Entries
             /\ keyfile' = IF "keyfile" \in S THEN None ELSE keyfile
             /\ meta' = IF "meta" \in S THEN None ELSE meta
             /\ db' = IF "db" \in S THEN None ELSE db
             /\ IF isRetryable(code) /\ c.attempt # maxRetries - 1
                  THEN /\ calls' = Remove(c) (+)
                                     SetToBag({[c EXCEPT
                                                  !.attempt = @ + 1,
                                                  !.error = code,
                                                  !.delay = retryDelay * (c.attempt + 1)]})
                       /\ ret' = NoRet
                  ELSE /\ calls' = Remove(c)
                       /\ ret' = [Ret("destroy", code, FALSE)
                                    EXCEPT !.info = <<c.attempt>>]
        /\ hist' = [Hist EXCEPT !.sit = "none"]
        /\ UNCHANGED <<dir, rng>>
  /\ UNCHANGED <<machineId, engine>>
  /\ UNCHANGED glob

\* The process stops without close(): the instance and everything it awaits
\* are gone, the files stay as they are.
Crash ==
  /\ inst
  /\ ~closed \/ calls # EmptyBag
  /\ inst' = FALSE /\ closed' = FALSE /\ masterKey' = NoKey /\ salt' = 0
  /\ dirPath' = "" /\ keyIndex' = {} /\ handle' = "none"
  /\ calls' = EmptyBag
  /\ ret' = NoRet
  /\ hist' = Snapshot(Hist, IF db = None THEN "none" ELSE "crashed")
  /\ UNCHANGED <<disk, machineId, rng>>
  /\ UNCHANGED glob

\* A separate connection's PRAGMA wal_checkpoint(TRUNCATE); it fails, and
\* changes nothing, on a file that is no longer a database.
forceCheckpoint(d) ==
  IF View(d).dirt = "structure" THEN d ELSE [d EXCEPT !.main = View(d), !.wal = <<>>]

\* Somebody else opens store.db after the engine was closed, forces a WAL
\* checkpoint and closes it again.
ForceCheckpoint ==
  /\ db # None
  /\ inst /\ closed
  /\ calls = EmptyBag
  /\ Hist.chmod = "none"
  /\ db' = Some(forceCheckpoint(db[1]))
  /\ hist' = [Hist EXCEPT !.ckpt = TRUE]
  /\ ret' = NoRet
  /\ UNCHANGED <<dir, keyfile, meta, machineId, rng, engine, calls>>
  /\ UNCHANGED glob

\* Somebody overwrites bytes of the store.db main file after the engine was
\* closed: bytes of a row ("payload") or bytes SQLite needs to read the
\* file at all ("structure").
TamperDb(kind) ==
  /\ db # None
  /\ inst /\ closed
  /\ calls = EmptyBag
  /\ Hist.chmod = "none"
  /\ db[1].main.dirt = "clean"
  /\ db' = Some([db[1] EXCEPT !.main.dirt = kind])
  /\ hist' = [Hist EXCEPT !.tamper = TRUE]
  /\ ret' = NoRet
  /\ UNCHANGED <<dir, keyfile, meta, machineId, rng, engine, calls>>
  /\ UNCHANGED glob

\* Somebody changes the mode of the directory or of a file in it after the
\* engine was closed (one interference of this kind between a close and the
\* next open, and not together with the other two).
Chmod(target, mode) ==
  /\ inst /\ closed
  /\ calls = EmptyBag
  /\ Hist.chmod = "none" /\ ~Hist.tamper /\ ~Hist.ckpt
  /\ CASE target = "dir" ->
            /\ dir # None /\ dir[1].mode # mode
            /\ dir' = Some([dir[1] EXCEPT !.mode = mode])
            /\ UNCHANGED <<keyfile, meta, db>>
       [] target = "keyfile" ->
            /\ keyfile # None /\ keyfile[1].mode # mode
            /\ keyfile' = Some([keyfile[1] EXCEPT !.mode = mode])
            /\ UNCHANGED <<dir, meta, db>>
       [] target = "meta" ->
            /\ meta # None /\ meta[1].mode # mode
            /\ meta' = Some([meta[1] EXCEPT !.mode = mode])
            /\ UNCHANGED <<dir, keyfile, db>>
  /\ hist' = [Hist EXCEPT !.chmod = target]
  /\ ret' = NoRet
  /\ UNCHANGED <<machineId, rng, engine, calls>>
  /\ UNCHANGED glob

\* Somebody rewrites or removes meta.json after the engine was closed or
\* its process was killed: text that is not JSON ("corrupt"), another
\* version, another integrity value, or no file at all ("missing").
TamperMeta(kind) ==
  /\ (inst /\ closed) \/ Hist.sit = "crashed"
  /\ calls = EmptyBag
  /\ meta # None
  /\ Hist.meta = "none" /\ Hist.chmod = "none" /\ ~Hist.ckpt
  /\ machineId = "host:mac:user"
  /\ meta' = CASE kind = "corrupt" -> Some([meta[1] EXCEPT !.text.json = FALSE])
              [] kind = "version" -> Some([meta[1] EXCEPT !.text.version = "2"])
              [] kind = "integrity" ->
                   Some([meta[1] EXCEPT
                           !.text.integrity = hmac(NoKey, sha256(EmptyContent))])
              [] kind = "missing" -> None
  /\ hist' = [Hist EXCEPT !.meta = kind]
  /\ ret' = NoRet
  /\ UNCHANGED <<dir, keyfile, db, machineId, rng, engine, calls>>
  /\ UNCHANGED glob

\* The store is opened next on another machine or by another user: hostname,
\* MAC address or username differ from the ones the store was written under.
ChangeMachine ==
  /\ inst /\ closed
  /\ calls = EmptyBag
  /\ Hist.meta = "none" /\ Hist.chmod = "none" /\ ~Hist.ckpt /\ ~Hist.tamper
  /\ machineId = "host:mac:user"
  /\ machineId' = "other:mac:user"
  /\ hist' = Hist
  /\ ret' = NoRet
  /\ UNCHANGED <<disk, rng, engine, calls>>
  /\ UNCHANGED glob

\* A stored row that no longer decrypts as it was written.
Damaged(r) ==
  \/ ~r.cipher.intact \/ r.cipher.len < AUTH_TAG_LENGTH \/ r.cipher.iv # r.iv
  \/ ~r.key_enc.ciphertext.intact

\* Another connection to store.db alters one column of a row while the
\* engine is open: a byte of cipher flipped, the iv replaced, cipher cut
\* below the length of the auth tag, or a byte of key_enc flipped.
CorruptRow(r, kind) ==
  /\ inst /\ ~closed
  /\ calls = EmptyBag
  /\ db # None
  /\ r \in findAll(db[1])
  /\ \A x \in findAll(db[1]) : ~Damaged(x)
  /\ LET altered ==
           CASE kind = "cipher" -> [r EXCEPT !.cipher.intact = FALSE]
             [] kind = "iv" -> [r EXCEPT !.iv = 0]
             [] kind = "short" ->
                  [r EXCEPT !.cipher.intact = FALSE,
                            !.cipher.len = AUTH_TAG_LENGTH - 1]
             [] kind = "key_enc" -> [r EXCEPT !.key_enc.ciphertext.intact = FALSE]
     IN db' = Some(walCommit(db[1], FramePut(altered)))
  /\ hist' = [Hist EXCEPT !.sit = "none"]
  /\ ret' = NoRet
  /\ UNCHANGED <<dir, keyfile, meta, machineId, rng, engine, calls>>
  /\ UNCHANGED glob

Next ==
  \/ Open
  \/ \E key \in Names, value \in Values : SetBegin(key, value)
  \/ \E key \in Names : DeleteBegin(key)
  \/ \E c \in Pending : CallRead(c)
  \/ \E c \in Pending : CallWrite(c)
  \/ CloseBegin
  \/ \E c \in Pending : CloseFinish(c)
  \/ DestroyBegin
  \/ \E c \in Pending : DestroyRemove(c)
  \/ Crash
  \/ ForceCheckpoint
  \/ \E kind \in {"payload", "structure"} : TamperDb(kind)
  \/ \E target \in DOMAIN ChmodModes : \E mode \in ChmodModes[target] :
       Chmod(target, mode)

Spec == Init /\ [][Next]_vars

\* ------------------------------------- the store under outside interference

\* The ways meta.json and a row are altered from outside.
MetaDamage == {"corrupt", "version", "integrity", "missing"}
RowDamage == {"cipher", "iv", "short", "key_enc"}

\* open, set, delete and close, each awaited before the next call is made,
\* on a directory whose meta.json, database pages, rows or machine somebody
\* changes in between.
TamperNext ==
  \/ Open
  \/ \E key \in Names, value \in Values : calls = EmptyBag /\ SetBegin(key, value)
  \/ \E key \in Names : calls = EmptyBag /\ DeleteBegin(key)
  \/ \E c \in Pending : CallRead(c)
  \/ \E c \in Pending : CallWrite(c)
  \/ calls = EmptyBag /\ CloseBegin
  \/ \E c \in Pending : CloseFinish(c)
  \/ calls = EmptyBag /\ Crash
  \/ TamperDb("pages")
  \/ \E kind \in MetaDamage : TamperMeta(kind)
  \/ ChangeMachine
  \/ \E r \in (IF db = None THEN {} ELSE findAll(db[1])) :
       \E kind \in RowDamage : CorruptRow(r, kind)

TamperSpec == Init /\ [][TamperNext]_vars

\* ------------------------------------------------ names beyond ASCII, listed

\* Names with a character of the Basic Multilingual Plane above the
\* surrogates (U+FF5E) and one beyond the plane (U+1F600).
SortNames == {<<"a">>, <<"UFF5E">>, <<"U1F600">>, <<"U1F600", "a">>, <<"a", "UFF5E">>}

\* keys() and keys(pattern) on an open engine with no call pending.
Keys(pat) ==
  /\ inst /\ ~closed
  /\ calls = EmptyBag
  /\ ret' = [Ret("keys", keysOf(pat).tag, FALSE) EXCEPT !.info = keysOf(pat).v]
  /\ hist' = Hist
  /\ UNCHANGED <<disk, machineId, rng, engine, calls>>
  /\ UNCHANGED glob

\* open and awaited sets of such names, and keys.
SortNext ==
  \/ Open
  \/ \E key \in SortNames : calls = EmptyBag /\ SetBegin(key, <<"v">>)
  \/ \E c \in Pending : CallRead(c)
  \/ \E c \in Pending : CallWrite(c)
  \/ \E pat \in {None, Some(<<"*">>)} : Keys(pat)

SortSpec == Init /\ [][SortNext]_vars

\* ------------------------------------------- a seal update that fails

\* Errors readFile of store.db or writeFile of meta.json may fail with.
SealErrors == {"EACCES", "ENOSPC"}

\* A failed seal update that also takes the call's row change back.
SealFailsRollback(c, code) ==
  /\ c.op \in {"set", "delete"}
  /\ c.pc \in {"read", "write"}
  /\ db # None /\ db[1].wal # <<>>
  /\ db' = Some([db[1] EXCEPT !.wal = SubSeq(@, 1, Len(@) - 1)])
  /\ calls' = Remove(c)
  /\ ret' = Ret(c.op, code, FALSE)
  /\ hist' = [Hist EXCEPT !.sit = "none"]
  /\ UNCHANGED <<dir, keyfile, meta, machineId, rng, engine>>
  /\ UNCHANGED glob

\* updateIntegrity inside set or delete fails at its readFile or at its
\* writeFile: nothing catches the error on its way to the caller, and
\* nothing is undone.
SealFails(c, code) ==
  /\ c.op \in {"set", "delete"}
  /\ c.pc \in {"read", "write"}
  /\ db # None
  /\ calls' = Remove(c)
  /\ ret' = Ret(c.op, code, FALSE)
  /\ hist' = [Hist EXCEPT !.sit = "none"]
  /\ UNCHANGED <<disk, machineId, rng, engine>>
  /\ UNCHANGED glob

\* open, set, delete and close, each awaited, where the seal update of a
\* write may fail.
SealFailNext ==
  \/ Open
  \/ \E key \in Names, value \in Values : calls = EmptyBag /\ SetBegin(key, value)
  \/ \E key \in Names : calls = EmptyBag /\ DeleteBegin(key)
  \/ \E c \in Pending : CallRead(c)
  \/ \E c \in Pending : CallWrite(c)
  \/ \E c \in Pending, code \in SealErrors : SealFails(c, code)
  \/ calls = EmptyBag /\ CloseBegin
  \/ \E c \in Pending : CloseFinish(c)

SealFailSpec == Init /\ [][SealFailNext]_vars

\* ------------------------------------- destroy on a file system that refuses

\* open, set, delete, close and destroy, each awaited before the next call
\* is made, where the removal of destroy may fail.
DestroyNext ==
  \/ Open
  \/ \E key \in Names, value \in Values : calls = EmptyBag /\ SetBegin(key, value)
  \/ \E key \in Names : calls = EmptyBag /\ DeleteBegin(key)
  \/ \E c \in Pending : CallRead(c)
  \/ \E c \in Pending : CallWrite(c)
  \/ calls = EmptyBag /\ CloseBegin
  \/ \E c \in Pending : CloseFinish(c)
  \/ calls = EmptyBag /\ DestroyBegin
  \/ \E c \in Pending : RemoveAttempt(c)

DestroySpec == Init /\ [][DestroyNext]_vars

\* The removal in progress: destroy() awaits removeDirectoryContents.
Removing == \E c \in Pending : c.pc = "remove"

\* The same, where a pending file system call or timer of the removal loop
\* does settle and its continuation runs.
DestroyFairSpec ==
  DestroySpec /\ WF_vars(\E c \in Pending : RemoveAttempt(c))

\* ------------------------------------------------- the matcher on its own

SeqsUpTo(S, n) == UNION {[1..m -> S] : m \in 0..n}

\* No engine; a pattern and a key for one call of matchGlob.
GlobInit ==
  /\ dir = None /\ keyfile = None /\ meta = None /\ db = None
  /\ machineId = "host:mac:user"
  /\ rng = 0
  /\ inst = FALSE /\ closed = FALSE /\ masterKey = NoKey /\ salt = 0
  /\ dirPath = "" /\ keyIndex = {} /\ handle = "none"
  /\ calls = EmptyBag
  /\ ret = NoRet
  /\ hist = HistBlank
  /\ globPattern \in SeqsUpTo(PatternChars, MaxGlobLen)
  /\ globKey \in SeqsUpTo(KeyChars, MaxGlobLen)
  /\ globResult = Null

MatchGlob ==
  /\ globResult.tag = "null"
  /\ globResult' = matchGlob(globPattern, globKey)
  /\ UNCHANGED <<disk, machineId, rng, engine, calls, ret, hist, globPattern, globKey>>

GlobNext == MatchGlob

GlobSpec == GlobInit /\ [][GlobNext]_vars

\* ------------------------------------------------------------------ claims

\* A reopen that follows a completed close with nothing but completed calls
\* before it, and the same after a crash.
ReopenedAfterClose == hist.justOpened /\ hist.sit = "closed"
ReopenedAfterCrash == hist.justOpened /\ hist.sit = "crashed"

\* C1: set(name, value) makes get(name) return exactly value (the empty
\* string included), and get(name) keeps its result over every step of the
\* open instance that is not a set or a delete of that name.
C1_SetThenGet ==
  [][/\ \A n \in Names, v \in Values :
          (inst /\ ~closed /\ SetBegin(n, v)) => get(n)' = Ok(v)
     /\ \A n \in Names :
          (/\ inst /\ ~closed /\ inst' /\ ~closed'
           /\ ~(\E v \in Values : SetBegin(n, v))
           /\ ~DeleteBegin(n))
          => get(n)' = get(n)]_vars

\* A set has returned and a name reads back as the empty string.
C1_Witness ==
  /\ inst /\ ~closed
  /\ ret = Ret("set", "ok", FALSE)
  /\ \E n \in Names : get(n) = Ok(<<>>)

\* C2: after completed set and delete calls and a completed close(), opening
\* the untouched directory succeeds and keys(), size and get(n) for every
\* name are what they were just before the close.
C2_ReopenPreserves ==
  (ReopenedAfterClose /\ ~hist.tamper /\ hist.chmod = "none")
    => /\ ret = Ret("open", "ok", FALSE)
       /\ inst /\ ~closed
       /\ keys = Ok(hist.keys)
       /\ size = Ok(Len(hist.keys))
       /\ \A n \in Names : get(n) = hist.vals[n]

\* Reopened after two sets, a delete and a close: one name is back with its
\* value, the deleted one is absent.
C2_Witness ==
  /\ ReopenedAfterClose /\ ~hist.tamper /\ ~hist.ckpt /\ hist.chmod = "none"
  /\ inst
  /\ Len(hist.keys) = 1
  /\ db[1].main.gen >= 4
  /\ \E n \in Names : get(n) = Null

\* C3: once a close() that had the instance to itself has completed, the WAL
\* is empty and meta.json's integrity is HMAC(master key, SHA-256(store.db
\* main file)); opening the unchanged store then passes verification.
C3_CloseSealsCheckpointedFile ==
  (hist.sit = "closed" /\ ~hist.tamper /\ hist.chmod = "none")
    => IF hist.justOpened
         THEN ret.val = "ok" /\ inst
         ELSE /\ db # None /\ meta # None
              /\ db[1].wal = <<>>
              /\ meta[1].text.integrity = hmac(masterKey, sha256(db[1].main))

\* A close has just completed on a store that a set had written to.
C3_Witness ==
  /\ hist.sit = "closed" /\ ~hist.justOpened /\ ~hist.tamper /\ ~hist.ckpt
  /\ ret = Ret("close", "ok", FALSE)
  /\ hist.mutated
  /\ Len(hist.keys) > 0

\* C4 (as stated): bytes of the store.db main file changed between a
\* completed close() and the next open() make that open fail with
\* IntegrityError and return no instance.
C4_TamperRaisesIntegrityError ==
  (ReopenedAfterClose /\ hist.tamper /\ hist.chmod = "none")
    => ret = Ret("open", "IntegrityError", FALSE) /\ ~inst

\* C5: after a set or a successful delete has returned, a stop of the process
\* without close() followed by a reopen gives either IntegrityError or an
\* instance in which every name reads as it did at the stop; never an
\* instance with a mutation missing.
C5_CrashNeverLosesSilently ==
  (ReopenedAfterCrash /\ hist.mutated)
    => \/ ret = Ret("open", "IntegrityError", FALSE) /\ ~inst
       \/ /\ ret = Ret("open", "ok", FALSE) /\ inst
          /\ \A n \in Names : get(n) = hist.vals[n]

\* Reopened after a stop that lost nothing: the seal of a close() had been
\* written but the close had not finished.
C5_Witness ==
  /\ ReopenedAfterCrash /\ hist.mutated
  /\ ret = Ret("open", "ok", FALSE)
  /\ \E n \in Names : get(n).tag = "ok"

\* The same with the reopen refused.
C5_WitnessRefused ==
  /\ ReopenedAfterCrash /\ hist.mutated
  /\ ret = Ret("open", "IntegrityError", FALSE)

\* C6: a WAL checkpoint forced by somebody else between a completed close()
\* and the next open() does not make that open fail, in whatever round of
\* open, mutate, close, checkpoint it happens.
C6_ForeignCheckpointHarmless ==
  (ReopenedAfterClose /\ hist.ckpt /\ ~hist.tamper /\ hist.chmod = "none")
    => /\ ret.val = "ok"
       /\ inst
       /\ \A n \in Names : getOrThrow(n) = IF hist.vals[n] = Null
                                             THEN Err("KeyNotFoundError")
                                             ELSE hist.vals[n]

\* Reopened after a set, a close and a foreign checkpoint: the secret is
\* there.
C6_Witness ==
  /\ ReopenedAfterClose /\ hist.ckpt /\ ~hist.tamper
  /\ ret.val = "ok"
  /\ rng >= 4
  /\ \E n \in Names : get(n).tag = "ok"

\* C7: on an instance whose close() has completed, get, getOrThrow, has,
\* keys and size fail with the closed error, set and delete fail with it and
\* change nothing on disk or in the instance, and storagePath still returns
\* the path.
C7_ClosedRejects ==
  [][(inst /\ closed)
       => /\ \A n \in Names : /\ get(n) = Err("closed")
                              /\ getOrThrow(n) = Err("closed")
                              /\ has(n) = Err("closed")
          /\ keys = Err("closed")
          /\ size = Err("closed")
          /\ storagePath = resolveStoragePath
          /\ \A n \in Names :
               ((\E v \in Values : SetBegin(n, v)) \/ DeleteBegin(n))
                 => /\ ret'.val = "closed"
                    /\ UNCHANGED <<disk, engine, calls>>]_vars

\* A set or delete was refused on a closed instance that still has a store.
C7_Witness ==
  /\ inst /\ closed /\ db # None
  /\ ret.op \in {"set", "delete"} /\ ret.val = "closed" /\ ret.closedBefore
  /\ storagePath = resolveStoragePath

\* C8 (as stated): destroy() on a closed instance does not fail with the
\* closed error.
C8_DestroyExemptFromGuard ==
  (ret.op = "destroy" /\ ret.closedBefore) => ret.val # "closed"

\* C9 (as stated): from the moment close() is called, before it is awaited,
\* get, has and keys are refused with the closed error, and so are set and
\* delete.
C9_ClosedAsSoonAsCalled ==
  (inst /\ \E c \in Pending : c.op = "close")
    => /\ \A n \in Names : get(n) = Err("closed") /\ has(n) = Err("closed")
       /\ keys = Err("closed")
       /\ ensureOpen = "closed"

\* C10: close() on an already closed instance returns without error, starts
\* no checkpoint, no meta.json write and no store close, and leaves the disk
\* and the instance as they are.
C10_CloseIdempotent ==
  [][(inst /\ closed /\ CloseBegin)
       => /\ ret' = Ret("close", "ok", TRUE)
          /\ UNCHANGED <<disk, engine, calls>>]_vars

\* A second close() has returned on a closed instance with a store on disk.
C10_Witness ==
  /\ inst /\ closed /\ db # None
  /\ ret = Ret("close", "ok", TRUE)

\* C11: set of a name already present leaves size unchanged, set of an absent
\* name increases size by exactly one; either way get(name) is the new value
\* and there is a single index entry and a single row for the name.
C11_SetUpserts ==
  [][\A n \in Names, v \in Values :
       (inst /\ ~closed /\ SetBegin(n, v))
         => /\ get(n)' = Ok(v)
            /\ size' = Ok(size.v + (IF n \in allKeys THEN 0 ELSE 1))
            /\ Cardinality({e \in keyIndex' : e.name = n}) = 1
            /\ Cardinality(findByHash(db[1], hashKey(n))') = 1]_vars

\* A name was set twice in a row and the store holds one secret.
C11_Witness ==
  /\ inst /\ ~closed /\ db # None
  /\ ret = Ret("set", "ok", FALSE)
  /\ size = Ok(1)
  /\ \E i, j \in DOMAIN db[1].wal :
       /\ i < j
       /\ db[1].wal[i].op = "put" /\ db[1].wal[j].op = "put"
       /\ db[1].wal[i].h = db[1].wal[j].h

\* C12: delete(name) of a present name removes it (has false, get null, size
\* one less) and goes on to return true; delete of an absent name returns
\* false and changes neither rows, index nor meta.json; true is returned only
\* by a delete that found its name.
C12_DeleteReports ==
  [][/\ \A n \in Names :
          (inst /\ ~closed /\ DeleteBegin(n))
            => IF n \in allKeys
                 THEN /\ has(n)' = Ok(FALSE)
                      /\ get(n)' = Null
                      /\ size' = Ok(size.v - 1)
                      /\ calls' = Add(Call("delete"))
                 ELSE /\ ret' = Ret("delete", "false", FALSE)
                      /\ UNCHANGED <<disk, keyIndex, calls>>
     /\ (ret'.op = "delete" /\ ret'.val = "true")
          => \E c \in Pending : c.op = "delete" /\ c.pc = "write"]_vars

\* A delete has returned true and nothing is left in the store.
C12_Witness ==
  /\ inst /\ ~closed
  /\ ret = Ret("delete", "true", FALSE)
  /\ size = Ok(0)
  /\ \A n \in Names : has(n) = Ok(FALSE) /\ get(n) = Null

\* C13: set(n1, v) and delete(n1) leave has(n2) and get(n2) as they were for
\* every other name n2, names sharing a dot-separated prefix included.
C13_NamesIndependent ==
  [][\A n1, n2 \in Names :
       (/\ n1 # n2
        /\ inst /\ ~closed
        /\ (\E v \in Values : SetBegin(n1, v)) \/ DeleteBegin(n1))
         => has(n2)' = has(n2) /\ get(n2)' = get(n2)]_vars

\* "a" and "a.b" were both stored, one was deleted, the other is still there.
C13_Witness ==
  /\ inst /\ ~closed
  /\ ret = Ret("delete", "true", FALSE)
  /\ size = Ok(1)
  /\ \E n \in Names : has(n) = Ok(TRUE) /\ get(n).tag = "ok"

\* C17: getOrThrow(name) fails with KeyNotFoundError exactly when the name is
\* absent, which is exactly when get(name) is null; for a present name it
\* returns what get returns, the empty string included.
C17_GetOrThrow ==
  (inst /\ ~closed)
    => \A n \in Names :
         /\ (get(n) = Null) <=> (n \notin allKeys)
         /\ (getOrThrow(n) = Err("KeyNotFoundError")) <=> (n \notin allKeys)
         /\ (n \in allKeys) => getOrThrow(n) = get(n) /\ get(n).tag = "ok"

\* An empty-string secret is returned as such while another name is missing.
C17_Witness ==
  /\ inst /\ ~closed
  /\ \E n \in Names : get(n) = Ok(<<>>) /\ getOrThrow(n) = Ok(<<>>)
  /\ \E n \in Names : getOrThrow(n) = Err("KeyNotFoundError")

Range(f) == {f[i] : i \in DOMAIN f}

\* C14 (as stated): in every state of an open engine keys() returns every
\* stored name once, and keys(p), for every pattern string p with the empty
\* string among them, returns exactly the stored names the glob matcher
\* accepts for p, once each and sorted.
C14_KeysFiltersByGlob ==
  (inst /\ ~closed)
    => /\ keys = Ok(sort(allKeys))
       /\ \A p \in KeyPatterns :
            keysOf(Some(p))
              = Ok(sort({k \in allKeys : matchGlob(p, k).tag = "ok" /\ matchGlob(p, k).v}))

\* C15 (as stated): a pattern without a star matches exactly the key equal
\* to it, whatever regex-significant characters it is made of.
C15_LiteralsMatchThemselves ==
  (globResult.tag # "null" /\ "*" \notin Range(globPattern))
    => globResult.tag = "ok" /\ globResult.v = (globKey = globPattern)

\* What the pattern language means: a star stands for a possibly empty run
\* of characters other than the dot, anything else for itself, and the
\* whole key has to be used up.
RECURSIVE GlobMeaning(_, _)
GlobMeaning(p, k) ==
  IF p = <<>> THEN k = <<>>
  ELSE IF Head(p) = "*"
    THEN \/ GlobMeaning(Tail(p), k)
         \/ k # <<>> /\ Head(k) # "." /\ GlobMeaning(p, Tail(k))
  ELSE k # <<>> /\ Head(k) = Head(p) /\ GlobMeaning(Tail(p), Tail(k))

\* C16: a star matches any, possibly empty, run of characters without a dot
\* and the match is anchored at both ends: "a.*" matches "a.a" and "a." but
\* neither "a" nor a key with a further dot, and a pattern without a star
\* never matches a longer key that starts with it.
C16_StarStaysInSegment ==
  globResult.tag # "null"
    => /\ ("?" \notin Range(globPattern))
            => /\ globResult.tag = "ok"
               /\ globResult.v = GlobMeaning(globPattern, globKey)
       /\ (globPattern = <<"a", ".", "*">>)
            => globResult.v = (/\ Len(globKey) >= 2
                               /\ SubSeq(globKey, 1, 2) = <<"a", ".">>
                               /\ \A i \in 3..Len(globKey) : globKey[i] # ".")
       /\ (/\ "*" \notin Range(globPattern)
           /\ Len(globKey) > Len(globPattern)
           /\ SubSeq(globKey, 1, Len(globPattern)) = globPattern)
            => ~(globResult.tag = "ok" /\ globResult.v)

\* "a.*" was matched against "a." and accepted it.
C16_Witness ==
  /\ globPattern = <<"a", ".", "*">>
  /\ globKey = <<"a", ".">>
  /\ globResult.tag = "ok" /\ globResult.v

\* The failure open() reports for a store file with the wrong mode.
SecurityErrorFor(name, expectedMode, actualMode) ==
  [Ret("open", "SecurityError", FALSE)
     EXCEPT !.info = <<[expected |-> expectedMode, actual |-> actualMode,
                        path |-> join(resolveStoragePath, name)]>>]

\* No database handle was made by the step.
NoDatabaseOpened == handle' # "open" /\ (handle' = "leaked" => handle = "leaked")

\* C18: open() passes the directory check exactly when the directory's mode
\* is 0o700 and the keyfile check exactly when an existing .keyfile has mode
\* 0o400; otherwise it fails with SecurityError carrying the expected mode,
\* the actual mode and the path, gives no instance, and has not opened the
\* database.
C18_ModesCheckedOnOpen ==
  [][Open =>
       IF dir # None /\ dir[1].mode # ModeDirectory
         THEN /\ ret' = SecurityErrorFor("", ModeDirectory, dir[1].mode)
              /\ ~inst'
              /\ UNCHANGED disk
              /\ NoDatabaseOpened
       ELSE IF keyfile # None /\ keyfile[1].mode # ModeKeyfile
         THEN /\ ret' = SecurityErrorFor(".keyfile", ModeKeyfile, keyfile[1].mode)
              /\ ~inst'
              /\ UNCHANGED <<keyfile, meta, db>>
              /\ NoDatabaseOpened
       ELSE ret'.val # "SecurityError"]_vars

\* The directory was changed to 0o755 between close and open: expected
\* 0o700, actual 0o755.
C18_Witness ==
  /\ ReopenedAfterClose /\ hist.chmod = "dir"
  /\ ret = SecurityErrorFor("", 448, 493)
  /\ ~inst

\* C19 (as stated): while an engine is open store.db has mode 0o600 and
\* meta.json has mode 0o600, the directory 0o700 and .keyfile 0o400.
C19_StoreFileModes ==
  (inst /\ ~closed /\ dir # None)
    => /\ dir[1].mode = ModeDirectory
       /\ keyfile[1].mode = ModeKeyfile
       /\ meta[1].mode = ModeMeta
       /\ db[1].mode = ModeDatabase

\* C20 (as stated): open() fails with SecurityError and gives no instance
\* when store.db or meta.json is more permissive than 0o600.
C20_OpenVerifiesEveryFile ==
  [][(/\ Open
      /\ db # None /\ meta # None
      /\ db[1].mode > ModeDatabase \/ meta[1].mode > ModeMeta)
       => ret'.val = "SecurityError" /\ ~inst']_vars

\* C21: opening a directory whose meta.json exists but is not parseable JSON
\* fails with IntegrityError and returns no instance, whatever the database
\* contains.
C21_CorruptMetaRefused ==
  (ReopenedAfterClose /\ hist.meta = "corrupt" /\ ~hist.tamper)
    => ret.val = "IntegrityError" /\ ~inst

\* C22: opening an existing store (meta.json parseable, with a salt) fails
\* with IntegrityError and returns no instance when meta.version is not "1"
\* or meta.integrity differs from the recomputed seal; the version is
\* checked before the WAL is checkpointed, so a refusal on the version
\* leaves the database as verifyIntegrity found it.
C22_BadVersionOrSealRefused ==
  /\ (hist.justOpened /\ hist.meta \in {"version", "integrity"})
       => ret.val = "IntegrityError" /\ ~inst
  /\ (~hist.justOpened /\ hist.meta = "version" /\ db # None)
       => \A mid \in {machineId, "other:mac:user"} :
            verifyIntegrity(deriveMasterKey(mid, keyfile[1].data, meta[1].text.salt),
                            db[1], meta)
              = [err |-> "IntegrityError", db |-> db[1]]

\* A store whose WAL still holds a write is refused on its version, and
\* another is refused on its seal.
C22_Witness ==
  /\ hist.justOpened /\ hist.meta = "version"
  /\ ret.val = "IntegrityError" /\ ~inst
  /\ db # None /\ db[1].wal # <<>>

C22_WitnessSeal ==
  /\ hist.justOpened /\ hist.meta = "integrity"
  /\ ret.val = "IntegrityError" /\ ~inst

\* C23: the salt in meta.json is generated once, when the store is created,
\* and never changes: whatever open, set, delete and close do, every rewrite
\* of meta.json keeps version "1" and the salt it had, and that salt is the
\* one the engine's master key was derived from.
C23_SaltNeverChanges ==
  [][/\ (meta # None /\ meta' # None /\ meta' # meta)
          => /\ meta'[1].text.version = STORE_VERSION
             /\ meta'[1].text.salt = meta[1].text.salt
     /\ (inst' /\ meta' # None)
          => /\ meta'[1].text.salt = salt'
             /\ masterKey' = deriveMasterKey(machineId', keyfile'[1].data,
                                             meta'[1].text.salt)]_vars

\* A store reopened after writes and a close, under the salt it was made with.
C23_Witness ==
  /\ ReopenedAfterClose /\ ret.val = "ok" /\ keyIndex # {}
  /\ meta # None /\ meta[1].text.salt = salt /\ masterKey.salt = salt

\* C24: after every completed set, and every delete that returned true,
\* meta.integrity equals HMAC-SHA256(master key, SHA256(the bytes store.db's
\* main file has now)), and no WAL checkpoint was made to compute it: the
\* write is still in the WAL.  (For a call that no other call overlaps.)
C24_WriteSealsMainFile ==
  (ret.op \in {"set", "delete"} /\ ret.val \in {"ok", "true"}
     /\ calls = EmptyBag /\ ~closed)
    => /\ meta # None /\ db # None
       /\ meta[1].text.integrity = hmac(masterKey, sha256(db[1].main))
       /\ db[1].wal # <<>>

\* A set, then a delete that returned true, both in the WAL only.
C24_Witness ==
  /\ ret.op = "delete" /\ ret.val = "true" /\ calls = EmptyBag /\ ~closed
  /\ Len(db[1].wal) >= 2
  /\ meta[1].text.integrity = hmac(masterKey, sha256(db[1].main))

\* C25: checkpoint discipline.  set and delete never checkpoint the WAL: the
\* bytes of the main file change only inside open, close and destroy (or by
\* somebody else's checkpoint).  In open the checkpoint comes before the file
\* is hashed: an existing store passes only if its seal is that of the
\* checkpointed file, and a new store is sealed over the checkpointed file.
\* In close and destroy the checkpoint comes first, before the seal of close
\* is computed or written.
C25_CheckpointDiscipline ==
  [][/\ (db # None /\ db' # None /\ db'[1].main # db[1].main
          /\ db'[1].main.dirt = db[1].main.dirt)
          => \/ Open
             \/ CloseBegin
             \/ \E c \in Pending : CloseFinish(c)
             \/ DestroyBegin
             \/ ForceCheckpoint
     /\ (Open /\ ret'.val = "ok")
          => /\ db'[1].wal = <<>>
             /\ meta'[1].text.integrity = hmac(masterKey', sha256(db'[1].main))
             /\ (db # None => db'[1].main = View(db[1]))
     /\ (CloseBegin /\ ~closed)
          => /\ db'[1].wal = <<>> /\ db'[1].main = View(db[1])
             /\ meta' = meta
     /\ (DestroyBegin /\ ~closed)
          => db'[1].wal = <<>> /\ db'[1].main = View(db[1])]_vars

\* A set has returned and its row is in the WAL only.
C25_Witness ==
  /\ ret.op = "set" /\ ret.val = "ok"
  /\ db # None /\ db[1].main.rows = {} /\ View(db[1]).rows # {}

\* C26: whenever the engine is open and no call is in progress, the name
\* index and the database rows correspond one to one, rows whose key_enc
\* did not decrypt at open excepted: every index key is the key_hash of a
\* row, every row is indexed unless its key_enc does not decrypt, no hash is
\* indexed twice, each indexed name is the plaintext whose HMAC under the
\* master key is its key_hash, and size is the number of indexed rows.
C26_IndexMatchesRows ==
  (inst /\ ~closed /\ calls = EmptyBag /\ db # None)
    => LET rows == findAll(db[1])
           hashes == {e.h : e \in keyIndex}
       IN /\ \A e \in keyIndex :
               /\ \E r \in rows : r.key_hash = e.h
               /\ e.h = hmac(masterKey, e.name)
               /\ \A f \in keyIndex : f.h = e.h => f = e
          /\ \A r \in rows :
               \/ r.key_hash \in hashes
               \/ decrypt(masterKey, r.key_enc.iv, r.key_enc.ciphertext,
                          r.key_hash).tag # "ok"
          /\ \A r1, r2 \in rows : r1.key_hash = r2.key_hash => r1 = r2
          /\ size = Ok(Cardinality({r \in rows : r.key_hash \in hashes}))

\* An open engine with one row indexed and another whose key_enc did not
\* decrypt at open.
C26_Witness ==
  /\ inst /\ ~closed /\ calls = EmptyBag /\ db # None
  /\ size = Ok(1)
  /\ \E r \in findAll(db[1]) :
       /\ r.key_hash \notin {e.h : e \in keyIndex}
       /\ r.key_hash.k = masterKey

\* C27: opening a directory that has no meta.json creates a new store.
\* Verification is skipped, the index is built (empty), and meta.json is
\* written with version "1", a freshly drawn salt and a seal computed over
\* the database file once its schema exists and the WAL is checkpointed.
\* When open returns size is 0, and the store verifies on the next open.
\* (A database whose table pages cannot be read makes the index build fail.)
C27_NoMetaCreatesStore ==
  [][(Open /\ meta = None /\ ~(db # None /\ findAllError(db[1]) # ""))
       => /\ ret'.val = "ok" /\ inst' /\ ~closed'
          /\ keyIndex' = {}
          /\ meta' # None
          /\ meta'[1].text.version = STORE_VERSION
          /\ meta'[1].text.salt = rng' /\ rng' > rng
          /\ salt' = rng' /\ masterKey'.salt = rng'
          /\ db' # None /\ db'[1].main.schema /\ db'[1].wal = <<>>
          /\ meta'[1].text.integrity = hmac(masterKey', sha256(db'[1].main))
          /\ verifyIntegrity(masterKey', db'[1], meta').err = ""]_vars

\* A new store made over a database that already held rows.
C27_Witness ==
  /\ hist.justOpened /\ hist.meta = "missing" /\ ret.val = "ok"
  /\ size = Ok(0) /\ findAll(db[1]) # {}
  /\ verifyIntegrity(masterKey, db[1], meta).err = ""

\* C28: when the machine identity at open differs from the one an existing
\* store was written under, the derived master key differs and open
\* surfaces DecryptionError from the name-index build (thrown, or logged by
\* an open that returns the engine); the store can still be reset with
\* destroy().
C28_OtherMachineDecryptionError ==
  (hist.justOpened /\ hist.sit = "closed" /\ machineId # "host:mac:user")
    => \/ ret.val = "DecryptionError"
       \/ ret.val = "ok" /\ inst /\ ~closed

\* C29: during the name-index build at open a row whose key_enc fails to
\* decrypt is skipped and does not make open fail: an open of a properly
\* closed, otherwise untouched store returns the engine; the skipped entry is
\* absent from keys(), has() and size while its row stays in the database,
\* and every other row is indexed.  An error other than DecryptionError
\* during the build (the SELECT failing) makes open fail.
C29_UndecryptableRowSkipped ==
  [][Open =>
       LET stored == IF db = None THEN {} ELSE findAll(db[1])
           rows == IF db' = None THEN {} ELSE findAll(db'[1])
           bad == {r \in rows :
                     decrypt(masterKey', r.key_enc.iv, r.key_enc.ciphertext,
                             r.key_hash).tag # "ok"}
       IN /\ (hist.sit = "closed" /\ ~hist.justOpened /\ hist.meta = "none"
                /\ ~hist.tamper /\ machineId = "host:mac:user")
               => ret'.val = "ok" /\ inst'
          /\ ret'.val = "ok"
               => /\ rows = stored
                  /\ \A r \in bad :
                       /\ r.key_hash \notin {e.h : e \in keyIndex'}
                       /\ \A n \in Names :
                            hmac(masterKey', n) = r.key_hash
                              => n \notin {e.name : e \in keyIndex'}
                  /\ \A r \in rows \ bad :
                       [h |-> r.key_hash, name |-> r.key_enc.ciphertext.p]
                         \in keyIndex'
                  /\ Cardinality(keyIndex') = Cardinality(rows \ bad)
          /\ (db # None /\ findAllError(db[1]) # ""
                /\ resolveSalt(meta, 0).isNewStore)
               => ret'.val = "SQLiteError" /\ ~inst']_vars

\* An engine just opened with one row indexed and one row of its own key
\* skipped.
C29_Witness ==
  /\ hist.justOpened /\ ret.val = "ok" /\ inst
  /\ Cardinality(keyIndex) = 1
  /\ \E r \in findAll(db[1]) :
       /\ r.key_hash.k = masterKey /\ ~r.key_enc.ciphertext.intact
       /\ \E n \in Names : hashKey(n) = r.key_hash /\ has(n) = Ok(FALSE)

\* An open that failed because the table could not be read.
C29_WitnessOtherError ==
  hist.justOpened /\ ret.val = "SQLiteError" /\ ~inst

\* C30: if the stored iv or cipher bytes of a row are altered (a byte
\* flipped, or cipher cut below 16 bytes), get of that name raises
\* DecryptionError and returns no value; the error carries the key hash, not
\* the plaintext name or value.
C30_AlteredRowRaisesDecryptionError ==
  (inst /\ ~closed /\ db # None)
    => \A n \in Names : \A r \in findByHash(db[1], hashKey(n)) :
         (~r.cipher.intact \/ r.cipher.len < AUTH_TAG_LENGTH \/ r.cipher.iv # r.iv)
           => /\ get(n).tag = "DecryptionError"
              /\ get(n).v = <<r.key_hash>>
              /\ getOrThrow(n).tag = "DecryptionError"

\* A get that failed on a shortened cipher, and one that failed on an
\* altered iv after the store was closed and opened again.
C30_Witness ==
  /\ inst /\ ~closed /\ db # None
  /\ \E n \in Names : \E r \in findByHash(db[1], hashKey(n)) :
       /\ r.cipher.len < AUTH_TAG_LENGTH
       /\ get(n) = DecryptionError(hashKey(n))
       /\ has(n) = Ok(TRUE)

C30_WitnessReopened ==
  /\ hist.justOpened /\ ret.val = "ok" /\ inst
  /\ \E n \in Names : \E r \in findByHash(db[1], hashKey(n)) :
       r.iv # r.cipher.iv /\ get(n).tag = "DecryptionError"

\* C31: destroy() on an open engine checkpoints, closes the row store,
\* clears the index and marks the instance closed before anything is
\* removed; when destroy completes, the directory and every entry of it are
\* gone, and from then on get, has, keys and size fail with the closed error
\* and set and delete are rejected with it, on that instance.
C31_DestroyRemovesEverything ==
  /\ []((ret.op = "destroy" /\ ret.val = "ok")
          => /\ dir = None /\ Entries = {}
             /\ inst /\ closed /\ handle = "closed" /\ keyIndex = {}
             /\ \A n \in Names : get(n) = Err("closed") /\ has(n) = Err("closed")
             /\ keys = Err("closed") /\ size = Err("closed"))
  /\ [][/\ (DestroyBegin /\ ~closed)
             => /\ closed' /\ handle' = "closed" /\ keyIndex' = {}
                /\ db'[1].wal = <<>> /\ db'[1].main = View(db[1])
                /\ dir' = dir /\ keyfile' = keyfile /\ meta' = meta
        /\ (inst /\ closed /\ dir = None)
             => /\ \A k \in Names, v \in Values :
                     SetBegin(k, v) => ret'.val = "closed" /\ dir' = None
                /\ \A k \in Names :
                     DeleteBegin(k) => ret'.val = "closed" /\ dir' = None
                /\ closed' \/ Open]_vars

\* destroy has completed on an engine that held a secret, after a retry.
C31_Witness ==
  /\ ret.op = "destroy" /\ ret.val = "ok" /\ ret.info = <<1>>
  /\ dir = None /\ closed /\ inst
  /\ masterKey # NoKey

\* C32: the directory removal of destroy makes at most five attempts.  It
\* goes on to another attempt only after EBUSY or EPERM, having waited 200 ms
\* times the number of the attempt that failed; any other error leaves the
\* loop at once, and so does the error of the fifth attempt; hence destroy
\* always terminates.
C32_RemovalRetriesBounded ==
  /\ [](\A c \in Pending :
          c.pc = "remove"
            => /\ c.attempt \in 0..(maxRetries - 1)
               /\ c.attempt > 0
                    => c.error \in {"EBUSY", "EPERM"}
                       /\ c.delay = 200 * c.attempt)
  /\ []((ret.op = "destroy" /\ ret.val \notin {"ok", "closed"})
          => /\ ret.info \in {<<a>> : a \in 0..4}
             /\ ret.val \in {"EBUSY", "EPERM"} => ret.info = <<4>>)
  /\ [][\A c \in Pending :
          RemoveAttempt(c)
            => \/ ret'.op = "destroy" /\ c \notin BagToSet(calls')
               \/ \E d \in BagToSet(calls') :
                    d.pc = "remove" /\ d.attempt = c.attempt + 1]_vars
  /\ (Removing ~> ~Removing)

\* The fifth attempt failed with a retryable error, 800 ms after the fourth.
C32_Witness ==
  /\ ret.op = "destroy" /\ ret.val = "EBUSY" /\ ret.info = <<4>>
  /\ closed /\ dir # None

\* C33: whenever open fails after the database handle of the row store was
\* opened (while the database and schema are set up, in verification, in the
\* index build or in the first seal), the handle is closed before the error
\* reaches the caller: a failed open leaves no handle, or a closed one.
C33_FailedOpenClosesHandle ==
  (hist.justOpened /\ ret.op = "open" /\ ret.val # "ok")
    => ~inst /\ handle \in {"none", "closed"}

\* s comes before t by code points.
RECURSIVE codePointBefore(_, _)
codePointBefore(s, t) ==
  IF s = <<>> THEN t # <<>>
  ELSE IF t = <<>> THEN FALSE
  ELSE IF Head(s) = Head(t) THEN codePointBefore(Tail(s), Tail(t))
  ELSE codePoint(Head(s)) < codePoint(Head(t))

\* C34: keys() and keys(pattern) return the names in ascending code-point
\* order, whatever the stored names are.
C34_KeysInCodePointOrder ==
  (ret.op = "keys" /\ ret.val = "ok")
    => \A i, j \in 1..Len(ret.info) :
         i < j => codePointBefore(ret.info[i], ret.info[j])

\* C35: if the seal update inside set or delete fails, the error reaches the
\* caller as it is, and the row change and index change made earlier in the
\* call stay: the instance is open, get, has and keys show the mutation (the
\* last write in the WAL), and the index still matches the rows.
C35_FailedSealKeepsMutation ==
  (ret.op \in {"set", "delete"} /\ ret.val \in SealErrors)
    => /\ inst /\ ~closed /\ db # None /\ db[1].wal # <<>>
       /\ LET last == db[1].wal[Len(db[1].wal)]
          IN \A n \in Names :
               hashKey(n) = last.h[1]
                 => IF ret.op = "set"
                      THEN /\ last.op = "put"
                           /\ get(n) = Ok(last.row[1].cipher.p)
                           /\ has(n) = Ok(TRUE)
                           /\ keys.tag = "ok" /\ n \in Range(keys.v)
                      ELSE /\ last.op = "del"
                           /\ get(n) = Null
                           /\ has(n) = Ok(FALSE)
                           /\ keys.tag = "ok" /\ n \notin Range(keys.v)
       /\ {e.h : e \in keyIndex} = {r.key_hash : r \in findAll(db[1])}
       /\ \A e \in keyIndex : e.h = hashKey(e.name)
       /\ size = Ok(Cardinality(findAll(db[1])))

\* A set whose seal update failed, its value readable all the same while
\* meta.json still holds the seal from before.
C35_Witness ==
  /\ ret.op = "set" /\ ret.val = "ENOSPC"
  /\ inst /\ ~closed
  /\ \E n \in Names : get(n) = Ok(<<"v">>) /\ has(n) = Ok(TRUE)
  /\ meta[1].text.integrity = hmac(masterKey, sha256(db[1].main))

\* C36: set upserts the row and updates the index before its first
\* suspension, so get, has, keys and size called after set(name, value) was
\* called, and before its promise has resolved, see the new value; the
\* continuations of pending calls change nothing of it, so calls that are
\* not awaited take effect in the order they were made.
C36_SetVisibleBeforeItResolves ==
  [][/\ \A k \in Names, v \in Values :
          (SetBegin(k, v) /\ ~closed)
            => /\ \E c \in BagToSet(calls') : c.op = "set" /\ c.pc = "read"
               /\ get(k)' = Ok(v)
               /\ has(k)' = Ok(TRUE)
               /\ keys'.tag = "ok" /\ k \in Range(keys'.v)
               /\ size' = Ok(Cardinality({k} \cup allKeys))
               /\ \A n \in Names \ {k} : get(n)' = get(n) /\ has(n)' = has(n)
     /\ \A c \in Pending :
          (c.op \in {"set", "delete"} /\ (CallRead(c) \/ CallWrite(c)))
            => /\ \A n \in Names : get(n)' = get(n) /\ has(n)' = has(n)
               /\ keys' = keys /\ size' = size]_vars

\* Two sets of one name pending, neither resolved, and get gives the value
\* of the one made last.
C36_Witness ==
  /\ inst /\ ~closed /\ db # None
  /\ \E c, d \in Pending : c # d /\ c.op = "set" /\ d.op = "set"
  /\ Len(db[1].wal) >= 2
  /\ LET w == db[1].wal
         last == w[Len(w)]
         prev == w[Len(w) - 1]
     IN /\ last.op = "put" /\ prev.op = "put" /\ last.h = prev.h
        /\ last.row[1].cipher.p # prev.row[1].cipher.p
        /\ \E n \in Names : hashKey(n) = last.h[1] /\ get(n) = Ok(last.row[1].cipher.p)

\* C37: for every interleaving of set or delete with a close() that is still
\* pending on the same instance, once all calls have settled the integrity
\* value in meta.json matches the database file: the next open of the
\* directory passes verification.
C37_SettledCloseVerifies ==
  (inst /\ closed /\ calls = EmptyBag
     /\ ret.op \in {"close", "set", "delete"} /\ ret.val \in {"ok", "true"}
     /\ ~ret.closedBefore
     /\ dir # None /\ db # None /\ meta # None)
    => verifyIntegrity(masterKey, db[1], meta).err = ""

\* C38: if the process stops without close() while a set or a successful
\* delete is still only in the WAL, the next open fails with IntegrityError;
\* open does not rewrite meta.json of an existing store, so every later open
\* of the unmodified directory fails the same way.
C38_CrashWithWalRefusedForever ==
  [][(/\ Open
      /\ hist.sit = "crashed" /\ db # None /\ meta # None
      /\ \/ ~hist.justOpened
            /\ \E i \in DOMAIN db[1].wal : db[1].wal[i].op \in {"put", "del"}
         \/ hist.justOpened /\ ret.op = "open" /\ ret.val = "IntegrityError")
       => /\ ret'.val = "IntegrityError" /\ ~inst'
          /\ meta' = meta]_vars

\* The second open after such a stop: the first one has merged the WAL, the
\* seal is still the old one.
C38_Witness ==
  /\ hist.justOpened /\ hist.sit = "crashed"
  /\ ret.op = "open" /\ ret.val = "IntegrityError" /\ ~inst
  /\ db # None /\ db[1].wal = <<>> /\ db[1].main.rows # {}
  /\ meta # None /\ meta[1].text.integrity.d # sha256(db[1].main)

\* C39: destroy marks the instance closed and closes the row store before the
\* removal starts; when the removal fails the error is what destroy() throws,
\* the instance is closed all the same, and a further destroy() on it is
\* rejected by the closed guard: it removes nothing and starts no removal.
C39_FailedDestroyLeavesClosed ==
  /\ [](Removing => (closed /\ handle = "closed" /\ keyIndex = {}))
  /\ []((ret.op = "destroy" /\ ret.val \in RemoveErrors)
          => (inst /\ closed /\ handle = "closed" /\ dir # None))
  /\ [][(/\ inst /\ closed /\ calls = EmptyBag /\ dir # None
          /\ inst' /\ closed')
           => /\ UNCHANGED disk
              /\ calls' = EmptyBag
              /\ ret'.op = "destroy" => ret'.val = "closed"]_vars

\* A second destroy() rejected while the directory is left partly removed.
C39_Witness ==
  /\ inst /\ closed /\ calls = EmptyBag
  /\ ret.op = "destroy" /\ ret.val = "closed"
  /\ dir # None /\ Entries # {} /\ meta = None /\ keyfile # None

====
